---- MODULE Spec2Model ----
(***************************************************************************)
(* A model of streamlit_app.py: the tool-usage summary that ask_agent      *)
(* derives from one agent run, and main, the script Streamlit re-executes  *)
(* on every interaction of a browser session.                              *)
(*                                                                         *)
(* Python strings are sequences of one-character strings, so that str()    *)
(* and strip() are computed, not assumed.  A formatted string is the       *)
(* sequence of the pieces the f-string concatenates.  Non-ASCII literals   *)
(* of the source are written in ASCII: AnswerLabel and ToolsLabel for the   *)
(* two Korean labels of the returned string, NoneMarker for the Korean     *)
(* word for "none" that stands in for an empty tool list.                  *)
(***************************************************************************)
EXTENDS Naturals, Sequences, FiniteSets, TLC

VARIABLES
    \* ---- the browser session (widget values, process and session state)
    openai_api,      \* st.text_input, the OPENAI key: a string
    tavily_api,      \* st.text_input, the TAVILY key: a string
    pdf_docs,        \* st.file_uploader(accept_multiple_files=True): a list
    csv_file,        \* st.file_uploader(type="csv"): a file or None
    environ,         \* os.environ, restricted to the two keys main writes
    session_state,   \* st.session_state: a mapping, "messages" absent at first
    run,             \* what the latest run of main did (its trace)
    invoke_log,      \* every (question, response) ask_agent has returned
    \* ---- one call of ask_agent taken alone
    result,          \* what agent_executor.invoke returned
    used_tools,      \* the local used_tools after line 111
    ret,             \* the string ask_agent returned
    calls,           \* how many calls of ask_agent have returned
    first            \* the first call: its result and its returned string

session_vars == <<openai_api, tavily_api, pdf_docs, csv_file, environ,
                  session_state, run, invoke_log>>
ask_vars == <<result, used_tools, ret, calls, first>>
vars == <<session_vars, ask_vars>>

-----------------------------------------------------------------------------
(* Bounds of the model *)

\* longest intermediate-steps sequence drawn for a single call of ask_agent
MaxSteps == 2
\* calls of ask_agent in a row when the post-processing is repeated
MaxCalls == 3
\* chat turns of one session
MaxTurns == 2
\* uploaded PDF files
MaxPdfs == 2

-----------------------------------------------------------------------------
(* Python values *)

\* the value None; the same shape as every other observation
None == [type |-> "NoneType", val |-> <<>>]

PyStr(s) == [type |-> "str", val |-> s]

PyList(s) == [type |-> "list", val |-> s]

Rep(c, n) == [k \in 1..n |-> c]

IsSpace(c) == c \in {" ", "\n", "\t"}

RECURSIVE LStrip(_)
LStrip(s) == IF s # <<>> /\ IsSpace(Head(s)) THEN LStrip(Tail(s)) ELSE s

RECURSIVE RStrip(_)
RStrip(s) ==
    IF s # <<>> /\ IsSpace(s[Len(s)]) THEN RStrip(SubSeq(s, 1, Len(s) - 1)) ELSE s

\* str.strip()
Strip(s) == RStrip(LStrip(s))

\* str(obs): a string is itself, None is "None", the empty list is "[]"
Str(obs) ==
    CASE obs.type = "str" -> obs.val
      [] obs.type = "NoneType" -> <<"N", "o", "n", "e">>
      [] obs.type = "list" -> <<"[">> \o obs.val \o <<"]">>

\* bool(obs): the empty string, None and the empty list are false, any other
\* object is true
Truthy(obs) ==
    CASE obs.type \in {"str", "list"} -> obs.val # <<>>
      [] obs.type = "NoneType" -> FALSE
      [] OTHER -> TRUE

-----------------------------------------------------------------------------
(* The tools *)

WebSearchName == "web_search"

PdfSearchName == "pdf_search"

CsvReplName == "csv_repl"

ToolNames == {WebSearchName, PdfSearchName, CsvReplName}

-----------------------------------------------------------------------------
(* ask_agent, lines 100-112 *)

\* the observation must be longer than this many characters
LengthThreshold == 30

StepQualifiesNoStrip(step) ==
    \/ step.tool = CsvReplName
    \/ Truthy(step.obs) /\ Len(Str(step.obs)) > LengthThreshold

\* lines 105-109: the step's tool is appended to used_tools
StepQualifies(step) ==
    \/ step.tool = CsvReplName
    \/ /\ step.tool # CsvReplName
       /\ Truthy(step.obs)
       /\ Len(Strip(Str(step.obs))) > LengthThreshold

\* line 100: used_tools starts empty, whatever an earlier call left behind
InitialUsedToolsLeaked(earlier) == earlier

InitialUsedTools(earlier) == <<>>

\* lines 101-109: the loop over the steps, in order
RECURSIVE CollectTools(_, _)
CollectTools(acc, steps) ==
    IF steps = <<>> THEN acc
    ELSE CollectTools(IF StepQualifies(Head(steps))
                      THEN Append(acc, Head(steps).tool) ELSE acc,
                      Tail(steps))

Range(s) == {s[k] : k \in DOMAIN s}

IsInjective(s) == \A a, b \in DOMAIN s : s[a] = s[b] => a = b

DedupOrdersKeepDuplicates(names) == {names}

\* line 111: list(set(used_tools)): every name once, in an order the hash
\* table decides
DedupOrders(names) ==
    {s \in [1..Cardinality(Range(names)) -> Range(names)] : Range(s) = Range(names)}

RECURSIVE Join(_, _)
\* sep.join(names), as the pieces it concatenates
Join(sep, names) ==
    IF names = <<>> THEN <<>>
    ELSE IF Len(names) = 1 THEN names
    ELSE <<Head(names), sep>> \o Join(sep, Tail(names))

AnswerLabel == " answer:\n"

ToolsLabel == "\n\n used tools: "

NoneMarker == "none-marker"

ToolsTextAlwaysJoined(tools) == Join(", ", tools)

\* line 112: the conditional expression inside the f-string
ToolsText(tools) == IF tools # <<>> THEN Join(", ", tools) ELSE <<NoneMarker>>

\* line 112: the returned f-string
Format(answer, tools) == <<AnswerLabel, answer, ToolsLabel>> \o ToolsText(tools)

\* line 98 and line 101: the answer, and the steps (none when the key is missing)
StepsOf(res) ==
    IF "intermediate_steps" \in DOMAIN res THEN res.intermediate_steps ELSE <<>>

-----------------------------------------------------------------------------
(* One call of ask_agent taken alone: the inputs are drawn at the start *)

Answers == {"Seoul", "42"}

\* observations around the threshold, with and without surrounding whitespace
ObsSamples ==
    { PyStr(<<>>), PyStr(<<"a">>), PyStr(Rep("x", 30)), PyStr(Rep("x", 31)),
      PyStr(<<" ">> \o Rep("x", 30)), PyStr(Rep("x", 30) \o <<"\n">>),
      PyStr(Rep(" ", 31)), PyStr(<<"\t">> \o Rep("x", 31) \o <<" ">>),
      None, PyList(<<>>) }

ShortObs == PyStr(<<"a">>)

LongObs == PyStr(Rep("x", 31))

Step(tool, obs) == [tool |-> tool, obs |-> obs]

\* the runs the repeated calls draw from: no step, one tool, one tool twice,
\* two tools, a step that does not count
RepeatTraces ==
    { <<>>,
      <<Step(WebSearchName, LongObs)>>,
      <<Step(PdfSearchName, LongObs), Step(PdfSearchName, LongObs)>>,
      <<Step(WebSearchName, LongObs), Step(PdfSearchName, LongObs)>>,
      <<Step(WebSearchName, ShortObs), Step(CsvReplName, PyStr(<<>>))>>,
      <<Step(CsvReplName, ShortObs), Step(WebSearchName, LongObs),
        Step(CsvReplName, LongObs)>> }

RepeatResults == [output : Answers, intermediate_steps : RepeatTraces]

StepsOver(obs) == [tool : ToolNames, obs : obs]

TracesOver(obs) == UNION {[1..n -> StepsOver(obs)] : n \in 0..MaxSteps}

\* what agent_executor.invoke may return: the steps may be missing
ResultsOver(obs) ==
    [output : Answers, intermediate_steps : TracesOver(obs)]
        \cup [output : Answers]

NotReturned == <<>>

NoCall == [result |-> [output |-> ""], ret |-> NotReturned]

SessionIdle ==
    /\ openai_api = ""
    /\ tavily_api = ""
    /\ pdf_docs = <<>>
    /\ csv_file = None
    /\ environ = [k \in {} |-> ""]
    /\ session_state = [k \in {} |-> <<>>]
    /\ run = [k \in {} |-> <<>>]
    /\ invoke_log = <<>>

InitAsk ==
    /\ SessionIdle
    /\ result \in ResultsOver(ObsSamples)
    /\ used_tools = <<>>
    /\ ret = NotReturned
    /\ calls = 0
    /\ first = NoCall

InitRepeat ==
    /\ SessionIdle
    /\ result \in RepeatResults
    /\ used_tools = <<>>
    /\ ret = NotReturned
    /\ calls = 0
    /\ first = NoCall

\* lines 100-112 on the result at hand
PostProcess ==
    /\ ret = NotReturned
    /\ \E order \in DedupOrders(CollectTools(InitialUsedTools(used_tools),
                                             StepsOf(result))) :
           /\ used_tools' = order
           /\ ret' = Format(result.output, order)
           /\ first' = IF calls = 0
                        THEN [result |-> result, ret |-> Format(result.output, order)]
                        ELSE first
    /\ calls' = calls + 1
    /\ UNCHANGED <<result, session_vars>>

\* the next call of ask_agent: another run of the agent has returned
NextResult ==
    /\ ret # NotReturned
    /\ calls < MaxCalls
    /\ result' \in RepeatResults
    /\ ret' = NotReturned
    /\ UNCHANGED <<used_tools, calls, first, session_vars>>

SpecAsk == InitAsk /\ [][PostProcess]_vars

SpecRepeat == InitRepeat /\ [][PostProcess \/ NextResult]_vars

-----------------------------------------------------------------------------
(* main, lines 118-156: one run of the script *)

OpenaiKeys == {"", "sk-key"}

TavilyKeys == {"", "tvly-key"}

UploadedFile(name) == [type |-> "UploadedFile", val |-> <<name>>]

Questions == {PyStr(<<"What is KDN?">>), PyStr(<<"Summarise the data">>)}

CredentialsPresentEither(openai, tavily) == openai # "" \/ tavily # ""

\* line 130: both keys are non-empty strings
CredentialsPresent(openai, tavily) == openai # "" /\ tavily # ""

ToolListPdfAlways(pdfs, csv) ==
    <<WebSearchName, PdfSearchName>>
        \o (IF Truthy(csv) THEN <<CsvReplName>> ELSE <<>>)

\* lines 134-138: the tools in the order they are constructed, by name
ToolList(pdfs, csv) ==
    <<WebSearchName>>
        \o (IF Truthy(PyList(pdfs)) THEN <<PdfSearchName>> ELSE <<>>)
        \o (IF Truthy(csv) THEN <<CsvReplName>> ELSE <<>>)

\* the factory behind each tool name
FactoryOf(name) ==
    CASE name = WebSearchName -> "search_web"
      [] name = PdfSearchName -> "load_pdf_files"
      [] name = CsvReplName -> "load_csv_tool"

SessionMessagesReset(state) == [messages |-> <<>>]

\* lines 142-143: the transcript is created when the session has none
SessionMessages(state) ==
    IF "messages" \notin DOMAIN state THEN [messages |-> <<>>] ELSE state

ShouldAskAlways(user_input) == TRUE

\* line 147: a question was submitted in this run
ShouldAsk(user_input) == Truthy(user_input)

Message(role, content) == [role |-> role, content |-> content]

AppendTurnAnswerFirst(messages, question, response) ==
    messages \o <<Message("assistant", response), Message("user", question)>>

\* lines 149-150: the question, then the response
AppendTurn(messages, question, response) ==
    Append(Append(messages, Message("user", question)),
           Message("assistant", response))

MessagesWhenAskRaisesKeepsQuestion(messages, question) ==
    Append(messages, Message("user", question))

\* lines 148-150: ask_agent is called before the first append, so when it
\* raises neither append is reached
MessagesWhenAskRaises(messages, question) == messages

DisplayedLatestTurn(messages) ==
    IF Len(messages) <= 2 THEN messages
    ELSE SubSeq(messages, Len(messages) - 1, Len(messages))

\* lines 152-153: every message is written, in order
Displayed(messages) == messages

\* the runs of the agent a chat turn draws from: steps of the tools built
AgentTraces(tools) ==
    {<<>>}
        \cup {<<Step(t, o)>> : t \in Range(tools), o \in {ShortObs, LongObs}}
        \cup {<<Step(t, LongObs), Step(u, LongObs)>> : t, u \in Range(tools)}

\* the answer text plays no part in main: one answer stands for all
TurnAnswers == {"Seoul"}

AgentResults(tools) ==
    [output : TurnAnswers, intermediate_steps : AgentTraces(tools)]

Transcript ==
    IF "messages" \in DOMAIN session_state THEN session_state.messages ELSE <<>>

EnvironKeys == <<"OPENAI_API_KEY", "TAVILY_API_KEY">>

\* what a run did: the keys of os.environ it wrote, the tools it constructed,
\* whether build_agent was called and with which tools, whether st.chat_input
\* was reached and what it returned, how often the agent was invoked, the
\* call that raised (if any), the messages written and the warning
RunRecord(writes, constructed, built, agent_tools, read, input, invokes, raised, displayed, warning) ==
    [environ_writes |-> writes, tools_constructed |-> constructed,
     agent_built |-> built, agent_tools |-> agent_tools,
     chat_input_read |-> read, user_input |-> input, invokes |-> invokes,
     raised |-> raised, displayed |-> displayed, warning |-> warning]

\* line 156: only the warning
WarningRun == RunRecord(<<>>, <<>>, FALSE, <<>>, FALSE, None, 0, "", <<>>, TRUE)

\* lines 155-156
MainDisabled ==
    /\ run' = WarningRun
    /\ UNCHANGED <<environ, session_state, invoke_log>>

\* lines 136 or 138 raise: the factory of tools[k] fails, main ends there
ToolConstructionRaises(tools) ==
    \E k \in 2..Len(tools) :
        /\ run' = RunRecord(EnvironKeys, SubSeq(tools, 1, k - 1), FALSE, <<>>,
                            FALSE, None, 0, FactoryOf(tools[k]), <<>>, FALSE)
        /\ UNCHANGED <<session_state, invoke_log>>

\* lines 140-153 without a question
NoQuestion(tools, submitted) ==
    /\ ~ShouldAsk(submitted)
    /\ session_state' = SessionMessages(session_state)
    /\ run' = RunRecord(EnvironKeys, tools, TRUE, tools, TRUE, submitted, 0, "",
                        Displayed(SessionMessages(session_state).messages), FALSE)
    /\ UNCHANGED invoke_log

\* lines 140-148, agent_executor.invoke raises at line 97
AskRaises(tools, submitted) ==
    /\ ShouldAsk(submitted)
    /\ session_state' =
           [messages |-> MessagesWhenAskRaises(SessionMessages(session_state).messages,
                                               submitted.val)]
    /\ run' = RunRecord(EnvironKeys, tools, TRUE, tools, TRUE, submitted, 1,
                        "invoke", <<>>, FALSE)
    /\ UNCHANGED invoke_log

\* lines 140-153 with a question the agent answers
AskReturns(tools, submitted) ==
    /\ ShouldAsk(submitted)
    /\ \E res \in AgentResults(tools) :
         \E order \in DedupOrders(CollectTools(InitialUsedTools(used_tools),
                                               StepsOf(res))) :
            LET response == Format(res.output, order)
                messages == AppendTurn(SessionMessages(session_state).messages,
                                       submitted.val, response)
            IN  /\ session_state' = [messages |-> messages]
                /\ invoke_log' = Append(invoke_log, [input |-> submitted.val,
                                                    response |-> response])
                /\ run' = RunRecord(EnvironKeys, tools, TRUE, tools, TRUE,
                                    submitted, 1, "", Displayed(messages), FALSE)

\* lines 130-153
MainEnabled(submitted) ==
    /\ environ' = [k \in Range(EnvironKeys) |->
                      IF k = "OPENAI_API_KEY" THEN openai_api' ELSE tavily_api']
    /\ \/ ToolConstructionRaises(ToolList(pdf_docs', csv_file'))
       \/ NoQuestion(ToolList(pdf_docs', csv_file'), submitted)
       \/ AskRaises(ToolList(pdf_docs', csv_file'), submitted)
       \/ AskReturns(ToolList(pdf_docs', csv_file'), submitted)

\* one run of main on the widget values of the new state; submitted is what
\* st.chat_input returns if the run reaches it
Main(submitted) ==
    /\ IF CredentialsPresent(openai_api', tavily_api')
       THEN MainEnabled(submitted)
       ELSE MainDisabled
    /\ UNCHANGED ask_vars

-----------------------------------------------------------------------------
(* The interactions of a session: each changes one widget and reruns main *)

EnterOpenaiApi ==
    /\ openai_api' \in OpenaiKeys \ {openai_api}
    /\ UNCHANGED <<tavily_api, pdf_docs, csv_file>>
    /\ Main(None)

EnterTavilyApi ==
    /\ tavily_api' \in TavilyKeys \ {tavily_api}
    /\ UNCHANGED <<openai_api, pdf_docs, csv_file>>
    /\ Main(None)

UploadPdf ==
    /\ Len(pdf_docs) < MaxPdfs
    /\ pdf_docs' = Append(pdf_docs, UploadedFile("doc.pdf"))
    /\ UNCHANGED <<openai_api, tavily_api, csv_file>>
    /\ Main(None)

RemovePdf ==
    /\ pdf_docs # <<>>
    /\ pdf_docs' = Tail(pdf_docs)
    /\ UNCHANGED <<openai_api, tavily_api, csv_file>>
    /\ Main(None)

UploadCsv ==
    /\ csv_file = None
    /\ csv_file' = UploadedFile("data.csv")
    /\ UNCHANGED <<openai_api, tavily_api, pdf_docs>>
    /\ Main(None)

RemoveCsv ==
    /\ csv_file # None
    /\ csv_file' = None
    /\ UNCHANGED <<openai_api, tavily_api, pdf_docs>>
    /\ Main(None)

\* the chat box exists only if the latest run reached st.chat_input
SubmitChat ==
    /\ run.chat_input_read
    /\ Len(Transcript) < 2 * MaxTurns
    /\ UNCHANGED <<openai_api, tavily_api, pdf_docs, csv_file>>
    /\ \E question \in Questions : Main(question)

\* the session after its first run: no key entered, nothing uploaded
Init ==
    /\ openai_api = ""
    /\ tavily_api = ""
    /\ pdf_docs = <<>>
    /\ csv_file = None
    /\ environ = [k \in {} |-> ""]
    /\ session_state = [k \in {} |-> <<>>]
    /\ run = WarningRun
    /\ invoke_log = <<>>
    /\ result = [output |-> ""]
    /\ used_tools = <<>>
    /\ ret = NotReturned
    /\ calls = 0
    /\ first = NoCall

Next ==
    \/ EnterOpenaiApi
    \/ EnterTavilyApi
    \/ UploadPdf
    \/ RemovePdf
    \/ UploadCsv
    \/ RemoveCsv
    \/ SubmitChat

Spec == Init /\ [][Next]_vars

-----------------------------------------------------------------------------
(* Reading a returned string back *)

\* the answer between the two labels
AnswerOf(s) == s[2]

\* what follows the tools label
ToolsPart(s) == SubSeq(s, 4, Len(s))

\* the names of the tool list, in the order listed: the pieces between the
\* separators; none when the marker stands in for the list
ListedNames(s) ==
    IF ToolsPart(s) = <<NoneMarker>> THEN <<>>
    ELSE [k \in 1..((Len(ToolsPart(s)) + 1) \div 2) |-> ToolsPart(s)[2 * k - 1]]

Occurrences(name, names) == Cardinality({k \in DOMAIN names : names[k] = name})

\* the rule as stated: the tool is csv_repl, or the observation, stringified
\* and trimmed, is longer than 30 characters
CountsAsUsed(step) ==
    step.tool = "csv_repl" \/ Len(Strip(Str(step.obs))) > 30

UsedNames(steps) == {steps[k].tool : k \in {j \in DOMAIN steps : CountsAsUsed(steps[j])}}

-----------------------------------------------------------------------------
(* Claims about ask_agent *)

\* C1: the summary lists a tool name if and only if some step with that name
\* is csv_repl or has an observation whose stringified, trimmed length is
\* greater than 30, and it lists each such name exactly once.
C1_SummaryListsUsedTools ==
    ret # NotReturned =>
        /\ Range(ListedNames(ret)) = UsedNames(StepsOf(result))
        /\ \A name \in Range(ListedNames(ret)) : Occurrences(name, ListedNames(ret)) = 1
        /\ Len(ToolsPart(ret)) = 2 * Len(ListedNames(ret)) - 1
               \/ ToolsPart(ret) = <<NoneMarker>>

\* a run whose steps name one tool twice, once under the threshold after
\* trimming and once over it, and a second tool at exactly 30 characters
C1_Witness ==
    /\ ret # NotReturned
    /\ Len(StepsOf(result)) = 2
    /\ StepsOf(result)[1].tool = WebSearchName
    /\ StepsOf(result)[2].tool = WebSearchName
    /\ StepsOf(result)[1].obs = PyStr(<<" ">> \o Rep("x", 30))
    /\ StepsOf(result)[2].obs = PyStr(Rep("x", 31))
    /\ ListedNames(ret) = <<WebSearchName>>

\* C2: the tool list is rendered as the marker exactly when no step of the
\* run counts as a used tool; an empty or missing steps sequence is such a run.
C2_MarkerIffNoUsedTool ==
    ret # NotReturned =>
        /\ (ToolsPart(ret) = <<NoneMarker>>) <=> (UsedNames(StepsOf(result)) = {})
        /\ StepsOf(result) = <<>> => ToolsPart(ret) = <<NoneMarker>>

\* the steps are missing from the result and the marker is rendered
C2_Witness ==
    /\ ret # NotReturned
    /\ "intermediate_steps" \notin DOMAIN result
    /\ ToolsPart(ret) = <<NoneMarker>>

\* C8: two applications of the post-processing to the same answer and steps
\* return the same answer text and the same tool names, in any order.
C8_SameResultSameSummary ==
    (ret # NotReturned /\ calls > 1 /\ result = first.result) =>
        /\ AnswerOf(ret) = AnswerOf(first.ret)
        /\ Range(ListedNames(ret)) = Range(ListedNames(first.ret))
        /\ Len(ToolsPart(ret)) = Len(ToolsPart(first.ret))

\* the same result again, after a call on another one, listed in another order
C8_Witness ==
    /\ ret # NotReturned
    /\ calls = 3
    /\ result = first.result
    /\ ret # first.ret

-----------------------------------------------------------------------------
(* Claims about main *)

IsPrefix(s, t) == Len(s) <= Len(t) /\ SubSeq(t, 1, Len(s)) = s

\* C3: a run in which the LLM key or the search key is empty constructs no
\* tool, builds and invokes no agent, does not write the credential
\* environment variables, leaves the transcript as it was and shows the
\* warning, whatever is uploaded and whatever earlier runs left behind.
C3_MissingKeyDisablesAll ==
    [][(openai_api' = "" \/ tavily_api' = "") =>
          /\ run'.tools_constructed = <<>>
          /\ ~run'.agent_built
          /\ run'.invokes = 0
          /\ run'.environ_writes = <<>>
          /\ environ' = environ
          /\ session_state' = session_state
          /\ invoke_log' = invoke_log
          /\ run'.displayed = <<>>
          /\ run'.warning]_vars

\* one key was removed after a chat turn, with a PDF and a CSV uploaded
C3_Witness ==
    /\ openai_api # ""
    /\ tavily_api = ""
    /\ pdf_docs # <<>>
    /\ csv_file # None
    /\ Len(Transcript) = 2
    /\ "TAVILY_API_KEY" \in DOMAIN environ
    /\ run.warning

\* C4: the tool list passed to build_agent is web_search, then pdf_search if
\* and only if at least one PDF is uploaded, then csv_repl if and only if a
\* CSV is uploaded: one to three tools, no name twice.
C4_ToolListFollowsUploads ==
    run.agent_built =>
        /\ run.agent_tools =
               <<"web_search">>
                   \o (IF Len(pdf_docs) >= 1 THEN <<"pdf_search">> ELSE <<>>)
                   \o (IF csv_file # None THEN <<"csv_repl">> ELSE <<>>)
        /\ Len(run.agent_tools) \in 1..3
        /\ IsInjective(run.agent_tools)

\* the agent was built with all three tools
C4_Witness ==
    /\ run.agent_built
    /\ Len(pdf_docs) = 2
    /\ csv_file # None
    /\ Len(run.agent_tools) = 3

\* C5: the transcript before a run is a prefix of the transcript after it.
C5_TranscriptAppendOnly == [][IsPrefix(Transcript, Transcript')]_vars

\* two turns are in the transcript and a run without keys has followed
C5_Witness ==
    /\ Len(Transcript) = 4
    /\ run.warning
    /\ pdf_docs # <<>>

C7_EveryRunDisplaysTranscript == run.displayed = Transcript

\* C7 as amended: after a run that has both keys and raises nothing, the
\* messages written in that run are the transcript, in append order,
\* the pair appended in that run included.
C7_CompletedRunDisplaysTranscript ==
    (openai_api # "" /\ tavily_api # "" /\ run.raised = "") =>
        run.displayed = Transcript

\* the second turn of a session has just been answered and displayed
C7_Witness ==
    /\ run.raised = ""
    /\ run.user_input # None
    /\ Len(Transcript) = 4
    /\ Len(run.displayed) = 4

\* C9: when the agent invocation raises, it was invoked once, nothing
\* after it ran, and the transcript is as it was before the turn.
C9_FailedTurnLeavesTranscript ==
    [][run'.raised = "invoke" =>
          /\ Transcript' = Transcript
          /\ invoke_log' = invoke_log
          /\ run'.invokes = 1
          /\ run'.displayed = <<>>]_vars

\* a turn failed after an answered one
C9_Witness ==
    /\ run.raised = "invoke"
    /\ run.user_input # None
    /\ Len(Transcript) = 2

\* C10: the transcript is a sequence of pairs: a user message with the
\* question, then an assistant message with the string ask_agent returned
\* for that question.
C10_TranscriptIsPairs ==
    /\ Len(Transcript) = 2 * Len(invoke_log)
    /\ \A k \in DOMAIN invoke_log :
          /\ Transcript[2 * k - 1] = [role |-> "user", content |-> invoke_log[k].input]
          /\ Transcript[2 * k] =
                 [role |-> "assistant", content |-> invoke_log[k].response]

\* two answered turns with different questions and different responses
C10_Witness ==
    /\ Len(Transcript) = 4
    /\ Transcript[1].content # Transcript[3].content
    /\ Transcript[2].content # Transcript[4].content
    /\ run.user_input = PyStr(Transcript[3].content)

====
